---------------------------- MODULE Spec2Model ----------------------------
(***************************************************************************)
(* tunnelx: the tunnel lifecycle of main.go (process, the signal handler,  *)
(* the supervisor's session loop, the heartbeat loop In and the control    *)
(* plane calls) and of the sshr package (SSHR.Run).                        *)
(*                                                                         *)
(* Threads of the model:                                                   *)
(*   mainPc   process(), main.go:143-210                                   *)
(*   sigPc    the goroutine of main.go:175-183                             *)
(*   sessPc   the goroutine of main.go:185-201 with the session it runs    *)
(*            (createTunnelsWithGoSSH, SSHR.Run)                           *)
(*   hb       the goroutines started by SuccessHook, each running In(ctx); *)
(*            they run the same code on the same globals, so hb is the bag *)
(*            of their positions                                           *)
(*   conns    the connections Run has accepted, each with the two copy     *)
(*            goroutines of handleConn (FwdSpec and CopySpec; Spec does    *)
(*            not follow the connections and leaves conns empty)           *)
(* os.Exit ends every thread at once: os_Exit leaves no goroutine and no   *)
(* action is enabled afterwards.                                           *)
(***************************************************************************)
EXTENDS Integers, Sequences, FiniteSets, Bags, TLC

\* Bound of the model: how many sessions may open their remote listener (and
\* so how many heartbeat goroutines are started) in one run.
MaxForwarding == 2

\* Bounds of the forwarding model: how many connections a session accepts, and
\* how many bytes the peers of those connections write in all.
MaxConns == 2
MaxBytes == 2

\* main.go:191, the ceiling of the retry counter.
MaxRetries == 10

\* main.go:194, seconds of backoff per counted failure.
BackoffUnit == 5

\* main.go:436, the heartbeat success counter announces below this value.
AnnounceBelow == 2

\* main.go:424, http.StatusOK.
StatusOK == 200

\* The status codes the control plane may answer with.
Statuses == {StatusOK, 500}

\* The ports a well-formed /freeport body may carry.
AllocatablePorts == {20001}

\* The bytes a peer may write.
Bytes == {"a", "b"}

\* The two copy loops of a forwarded connection: up is part_000:80-91 (from the
\* accepted remote connection to the local target), down is part_000:93-104.
Directions == {"up", "down"}

\* Addresses the accessibility probe may see.
IPs == {"198.51.100.7", "10.0.0.5"}

VARIABLES
    mainPc,        \* position of process()
    accessible,    \* main.go:145, result of isServiceAccessibleFromInternet
    listenIp,      \* main.go:143
    exited,        \* NotExited, or the os.Exit that ended the process
    ctxCancelled,  \* the process-wide context has been cancelled
    cancelledBy,   \* who called cancel()
    reverseProxyPort, \* main.go:89, NoPort or [port, status]
    named,         \* AgentName # ""
    sigPc,         \* position of the signal goroutine
    sessPc,        \* position of the session goroutine
    retryCount,    \* main.go:186
    backoff,       \* main.go:194, seconds of the sleep in progress
    connectionSucceededCount, \* main.go:71
    hookWrote,     \* the value the session goroutine stored there last
    announced,     \* calls of printConnectionSuccess
    hb,            \* the heartbeat goroutines
    conns,         \* the connections SSHR.Run has accepted, in order
    hist           \* history of the run, read by the properties only

vars == <<mainPc, accessible, listenIp, exited, ctxCancelled, cancelledBy,
          reverseProxyPort, named, sigPc, sessPc, retryCount, backoff,
          connectionSucceededCount, hookWrote, announced, hb, conns, hist>>

NoPort == [port |-> -1, status |-> 0]

\* os.Exit(code) called by `by`; NotExited while the process runs.
NotExited == [code |-> -1, by |-> "nobody"]

Running == exited = NotExited

\* The history starts empty.
HistInit ==
    [ deregStartup |-> 0,      \* /out requests sent by process() at startup
      alloc |-> 0,             \* /freeport requests sent
      allocEarly |-> FALSE,    \* a /freeport was sent before the startup /out
      dialed |-> FALSE,        \* some session was created and ssh.Dial called
      dialEarly |-> FALSE,     \* ssh.Dial was called during the startup calls
      portUses |-> 0,          \* attempts begun since the latest /freeport
      fwdReached |-> FALSE,    \* some session opened its remote listener
      curFwd |-> FALSE,        \* the running session opened its listener
      prevFwd |-> FALSE,       \* the session that ended last had opened it
      dlFails |-> 0,           \* consecutive attempts failed in Dial or Listen
      registerSent |-> FALSE,  \* some /in request was sent
      registerOk |-> FALSE,    \* some /in request returned 200
      registerEarly |-> FALSE, \* an /in request was sent before fwdReached
      renames |-> 0,           \* /rename requests sent
      hbFailed |-> FALSE,      \* an /in call of a heartbeat loop failed
      hbOut |-> FALSE,         \* a heartbeat loop's cleanup sent /out
      sigOutCalled |-> FALSE,  \* the handler called Out(ctx)
      sigOutSent |-> FALSE,    \* the handler's /out request was sent
      sigOutDone |-> FALSE,    \* the handler's Out has returned
      sawCancel |-> FALSE,     \* SSHR.Run returned nil on ctx.Done
      dialAfterCancel |-> FALSE, \* ssh.Dial was called after sawCancel
      hookCur |-> 0,           \* its calls during the running session
      writers |-> {},          \* goroutines that stored connectionSucceededCount
      sshOpen |-> 0,           \* SSH connections dialled and not closed
      listeners |-> 0          \* remote listeners opened and not closed
    ]

\* A heartbeat goroutine: its position in In (at "first" the call of
\* main.go:382 is ahead), whether it is leaving because an /in call failed,
\* and how many /out requests its deferred cleanup has sent.
Started == [pc |-> "first", failed |-> FALSE, outs |-> 0]
HbStates ==
    [pc : {"first", "select", "cleanup", "cancel", "returned"},
     failed : BOOLEAN, outs : 0..1]

\* Goroutine g of the bag moves on to position g2.
Moved(g, g2) == (hb (-) SetToBag({g})) (+) SetToBag({g2})

Init ==
    /\ mainPc = "probe"
    /\ accessible = FALSE
    /\ listenIp = ""
    /\ exited = NotExited
    /\ ctxCancelled = FALSE
    /\ cancelledBy = {}
    /\ reverseProxyPort = NoPort
    /\ named \in BOOLEAN
    /\ sigPc = "none"
    /\ sessPc = "none"
    /\ retryCount = 0
    /\ backoff = 0
    /\ connectionSucceededCount = 0
    /\ hookWrote = 0
    /\ announced = 0
    /\ hb = EmptyBag
    /\ conns = <<>>
    /\ hist = HistInit

\* os.Exit(code), reached from `by`: the process and all its goroutines end.
os_Exit(code, by) ==
    /\ exited' = [code |-> code, by |-> by]
    /\ mainPc' = "exited"
    /\ sigPc' = "exited"
    /\ sessPc' = "exited"
    /\ hb' = EmptyBag

\* main.go:212-221: prints the reason and ends the process with status 1.
printConnectionFailure(by) == os_Exit(1, by)

\* gologger.Fatal(), main.go:111 (process() returned an error) and
\* main.go:192 (retry ceiling): logs and ends the process with status 1.
Fatal(by) == os_Exit(1, by)

-----------------------------------------------------------------------------
(* The accessibility probe and the startup sequence of process().          *)

\* What onceRemoteIp() (main.go:83-85) and getLocalIPs() (main.go:286-308)
\* may return.
PublicIPResults ==
    {[err |-> TRUE, ip |-> ""]} \cup {[err |-> FALSE, ip |-> i] : i \in IPs}
LocalIPResults ==
    {[err |-> TRUE, ips |-> {}]} \cup {[err |-> FALSE, ips |-> s] : s \in SUBSET IPs}

\* main.go:255-267
isServiceAccessibleFromInternet(pub, locals) ==
    IF pub.err THEN [accessible |-> FALSE, err |-> TRUE]
    ELSE IF locals.err THEN [accessible |-> FALSE, err |-> TRUE]
    ELSE [accessible |-> pub.ip \in locals.ips, err |-> FALSE]

\* main.go:143-154
process_Probe ==
    /\ Running
    /\ mainPc = "probe"
    /\ \E pub \in PublicIPResults, locals \in LocalIPResults :
         LET r == isServiceAccessibleFromInternet(pub, locals) IN
         IF r.err
         THEN /\ printConnectionFailure("probe")
              /\ UNCHANGED <<accessible, listenIp>>
         ELSE /\ accessible' = r.accessible
              /\ listenIp' = IF r.accessible THEN pub.ip ELSE "0.0.0.0"
              /\ mainPc' = "bind"
              /\ UNCHANGED <<exited, sigPc, sessPc, hb>>
    /\ UNCHANGED <<ctxCancelled, cancelledBy, reverseProxyPort, named, conns, hookWrote,
                   retryCount, backoff, connectionSucceededCount,
                   announced, hist>>

\* Mutants of process_AfterBind: the tunnel branch without its Out(ctx), and
\* the tunnel branch taken whatever the probe said.
process_AfterBind_SkipsDeregister == IF accessible THEN "announce" ELSE "allocate"
process_AfterBind_AlwaysTunnels == "deregister"

\* main.go:161 and 202: which branch follows the free local port.
process_AfterBind == IF accessible THEN "announce" ELSE "deregister"

\* main.go:156-161: a free local port for the proxy; without one process()
\* returns the error to main().
process_Bind ==
    /\ Running
    /\ mainPc = "bind"
    /\ \/ Fatal("main")
       \/ /\ mainPc' = process_AfterBind
          /\ UNCHANGED <<exited, sigPc, sessPc, hb>>
    /\ UNCHANGED <<accessible, listenIp, ctxCancelled, cancelledBy,
                   reverseProxyPort, named, conns, hookWrote, retryCount, backoff,
                   connectionSucceededCount, announced, hist>>

\* main.go:203
process_Announce ==
    /\ Running
    /\ mainPc = "announce"
    /\ announced' = announced + 1
    /\ mainPc' = "serve"
    /\ UNCHANGED <<accessible, listenIp, exited, ctxCancelled, cancelledBy,
                   reverseProxyPort, named, conns, hookWrote, sigPc, sessPc, retryCount, backoff,
                   connectionSucceededCount, hb, hist>>

\* main.go:443-471. Out(ctx) sends POST /out unless ctx is already cancelled
\* (net/http returns ctx.Err() before it writes the request); the result is
\* an error for a transport failure or a status other than 200.
OutSends == ~ctxCancelled

\* main.go:162-165: the context is created and Out(ctx) called, which sends
\* the /out request that clears a stale registration.
process_Deregister ==
    /\ Running
    /\ mainPc = "deregister"
    /\ hist' = [hist EXCEPT !.deregStartup = @ + 1]
    /\ mainPc' = "deregisterWait"
    /\ UNCHANGED <<accessible, listenIp, exited, ctxCancelled, cancelledBy,
                   reverseProxyPort, named, conns, hookWrote, sigPc, sessPc, retryCount, backoff,
                   connectionSucceededCount, announced, hb>>

\* main.go:165: Out returns; its result, nil or an error, is dropped.
process_DeregisterReturn ==
    /\ Running
    /\ mainPc = "deregisterWait"
    /\ \E err \in BOOLEAN : mainPc' = "allocate"
    /\ UNCHANGED <<accessible, listenIp, exited, ctxCancelled, cancelledBy,
                   reverseProxyPort, named, conns, hookWrote, sigPc, sessPc, retryCount, backoff,
                   connectionSucceededCount, announced, hb, hist>>

\* What GET /freeport may be answered with: a transport error, or a status
\* and a body. A body of the expected shape decodes to its port; any other
\* JSON object (an error report, say) decodes to the zero value, port 0;
\* anything else does not decode.
FreeportAnswers ==
    {[transportErr |-> TRUE, status |-> 0, decodes |-> FALSE, port |-> 0]}
    \cup {[transportErr |-> FALSE, status |-> StatusOK, decodes |-> TRUE,
           port |-> p] : p \in AllocatablePorts}
    \cup {[transportErr |-> FALSE, status |-> st, decodes |-> TRUE,
           port |-> 0] : st \in Statuses \ {StatusOK}}
    \cup {[transportErr |-> FALSE, status |-> st, decodes |-> FALSE,
           port |-> 0] : st \in Statuses}

\* main.go:344-369. The status of the answer is not looked at.
getFreePortFromServer(answer) ==
    IF answer.transportErr THEN [err |-> TRUE, port |-> NoPort]
    ELSE IF ~answer.decodes THEN [err |-> TRUE, port |-> NoPort]
    ELSE [err |-> FALSE,
          port |-> [port |-> answer.port, status |-> answer.status]]

\* main.go:167 with main.go:345-351: the /freeport request is sent.
process_Allocate ==
    /\ Running
    /\ mainPc = "allocate"
    /\ hist' = [hist EXCEPT !.alloc = @ + 1, !.portUses = 0,
                            !.allocEarly = @ \/ hist.deregStartup = 0]
    /\ mainPc' = "allocateWait"
    /\ UNCHANGED <<accessible, listenIp, exited, ctxCancelled, cancelledBy,
                   reverseProxyPort, named, conns, hookWrote, sigPc, sessPc, retryCount, backoff,
                   connectionSucceededCount, announced, hb>>

\* main.go:167-170: getFreePortFromServer returns; an error ends the process.
process_AllocateReturn ==
    /\ Running
    /\ mainPc = "allocateWait"
    /\ \E answer \in FreeportAnswers :
         LET r == getFreePortFromServer(answer) IN
         IF r.err
         THEN /\ printConnectionFailure("allocate")
              /\ UNCHANGED reverseProxyPort
         ELSE /\ reverseProxyPort' = r.port
              /\ mainPc' = "spawn"
              /\ UNCHANGED <<exited, sigPc, sessPc, hb>>
    /\ UNCHANGED <<accessible, listenIp, ctxCancelled, cancelledBy, named, conns, hookWrote,
                   retryCount, backoff, connectionSucceededCount, announced,
                   hist>>

\* Mutant of process_Spawn: the heartbeat is started with the session loop
\* instead of from the success callback.
process_Spawn_StartsHeartbeat ==
    /\ Running
    /\ mainPc = "spawn"
    /\ sigPc' = "wait"
    /\ sessPc' = "create"
    /\ retryCount' = 0
    /\ mainPc' = "serve"
    /\ hb' = hb (+) SetToBag({Started})
    /\ UNCHANGED <<accessible, listenIp, exited, ctxCancelled, cancelledBy,
                   reverseProxyPort, named, conns, hookWrote, backoff,
                   connectionSucceededCount, announced, hist>>

\* main.go:172-201: the signal handler is installed and the session goroutine
\* started (retryCount := 0); process() goes on to ListenAndServe.
process_Spawn ==
    /\ Running
    /\ mainPc = "spawn"
    /\ sigPc' = "wait"
    /\ sessPc' = "create"
    /\ retryCount' = 0
    /\ mainPc' = "serve"
    /\ UNCHANGED <<accessible, listenIp, exited, ctxCancelled, cancelledBy,
                   reverseProxyPort, named, conns, hookWrote, backoff,
                   connectionSucceededCount, announced, hb, hist>>

\* main.go:206-209: ListenAndServe serves for as long as mainPc = "serve";
\* when it fails, process() returns the error to main(), which ends the
\* process.
process_Serve ==
    /\ Running
    /\ mainPc = "serve"
    /\ Fatal("main")
    /\ UNCHANGED <<accessible, listenIp, ctxCancelled, cancelledBy,
                   reverseProxyPort, named, conns, hookWrote, retryCount, backoff,
                   connectionSucceededCount, announced, hist>>

-----------------------------------------------------------------------------
(* The signal handler, main.go:172-183.                                    *)

\* Mutant of handler_Receive: Out(ctx) is started and not waited for.
handler_Receive_NoWait ==
    /\ Running
    /\ sigPc = "wait"
    /\ sigPc' = "cancel"
    /\ hist' = [hist EXCEPT !.sigOutCalled = TRUE, !.sigOutSent = OutSends]
    /\ UNCHANGED <<mainPc, accessible, listenIp, exited, ctxCancelled,
                   cancelledBy, reverseProxyPort, named, conns, hookWrote, sessPc, retryCount,
                   backoff, connectionSucceededCount, announced, hb>>

\* main.go:176-178 with main.go:443-458: a signal arrives on c and Out(ctx) is
\* called. With a live context the /out request is sent and the handler waits
\* for the answer; with a cancelled one Out returns the error at once.
handler_Receive ==
    /\ Running
    /\ sigPc = "wait"
    /\ IF OutSends
       THEN /\ sigPc' = "outWait"
            /\ hist' = [hist EXCEPT !.sigOutCalled = TRUE, !.sigOutSent = TRUE]
       ELSE /\ sigPc' = "cancel"
            /\ hist' = [hist EXCEPT !.sigOutCalled = TRUE, !.sigOutDone = TRUE]
    /\ UNCHANGED <<mainPc, accessible, listenIp, exited, ctxCancelled,
                   cancelledBy, reverseProxyPort, named, conns, hookWrote, sessPc, retryCount,
                   backoff, connectionSucceededCount, announced, hb>>

\* main.go:178-180 with main.go:459-471: Out returns, nil or an error (a
\* status other than 200, a transport error, the context cancelled meanwhile);
\* the error is only logged.
handler_OutReturn ==
    /\ Running
    /\ sigPc = "outWait"
    /\ \E err \in BOOLEAN :
         /\ sigPc' = "cancel"
         /\ hist' = [hist EXCEPT !.sigOutDone = TRUE]
    /\ UNCHANGED <<mainPc, accessible, listenIp, exited, ctxCancelled,
                   cancelledBy, reverseProxyPort, named, conns, hookWrote, sessPc, retryCount,
                   backoff, connectionSucceededCount, announced, hb>>

\* main.go:181
handler_Cancel ==
    /\ Running
    /\ sigPc = "cancel"
    /\ ctxCancelled' = TRUE
    /\ cancelledBy' = cancelledBy \cup {"handler"}
    /\ sigPc' = "exit"
    /\ UNCHANGED <<mainPc, accessible, listenIp, exited, reverseProxyPort,
                   named, conns, hookWrote, sessPc, retryCount, backoff,
                   connectionSucceededCount, announced, hb, hist>>

\* main.go:182
handler_Exit ==
    /\ Running
    /\ sigPc = "exit"
    /\ os_Exit(0, "handler")
    /\ UNCHANGED <<accessible, listenIp, ctxCancelled, cancelledBy,
                   reverseProxyPort, named, conns, hookWrote, retryCount, backoff,
                   connectionSucceededCount, announced, hist>>

-----------------------------------------------------------------------------
(* The session loop, main.go:185-201, and the session it runs,             *)
(* createTunnelsWithGoSSH (main.go:310-342) and SSHR.Run.                  *)

Min(a, b) == IF a < b THEN a ELSE b

\* Mutant of ExceedsRetries: the ceiling is one failure later.
ExceedsRetries_Late(n) == n > MaxRetries + 1

\* main.go:191: the ceiling test on the incremented counter.
ExceedsRetries(n) == n > MaxRetries

\* main.go:194
backoffDuration(n) == n * BackoffUnit

\* part_000:40 and 46: Run's deferred listener.Close() and conn.Close() run when
\* it returns. Closing the SSH connection ends every channel it carries: the
\* remote side of each accepted connection is closed with it. The connections
\* to the local target are not touched.
Run_Deferred(cs) == [i \in DOMAIN cs |-> [cs[i] EXCEPT !.remoteOpen = FALSE]]

\* Mutant of Run_Closes: Run returns and closes nothing.
Run_Closes_Nothing(hs, listening) == hs

\* part_000:40 and 46: what Run's deferred calls close when it returns after a
\* successful dial: its SSH connection, and its listener if it had opened one.
Run_Closes(hs, listening) ==
    [hs EXCEPT !.sshOpen = @ - 1,
               !.listeners = IF listening THEN @ - 1 ELSE @]

\* main.go:188-195: createTunnelsWithGoSSH returned an error, whatever the
\* session had reached. hs is the history up to the return.
process_RetryFail(hs) ==
    /\ conns' = Run_Deferred(conns)
    /\ retryCount' = retryCount + 1
    /\ hist' = [hs EXCEPT !.prevFwd = hs.curFwd, !.curFwd = FALSE,
                          !.dlFails = IF hs.curFwd THEN 0 ELSE @ + 1]
    /\ IF ExceedsRetries(retryCount')
       THEN /\ Fatal("retry")
            /\ UNCHANGED backoff
       ELSE /\ backoff' = backoffDuration(retryCount')
            /\ sessPc' = "sleep"
            /\ UNCHANGED <<exited, mainPc, sigPc, hb>>

\* main.go:196-199: createTunnelsWithGoSSH returned nil; the loop starts the
\* next attempt at once.
process_RetryReset(hs) ==
    /\ conns' = Run_Deferred(conns)
    /\ retryCount' = 0
    /\ sessPc' = "create"
    /\ hist' = [hs EXCEPT !.prevFwd = hs.curFwd, !.curFwd = FALSE]
    /\ UNCHANGED <<exited, mainPc, sigPc, hb, backoff>>

\* main.go:195: the sleep ends and the loop starts the next attempt.
process_Sleep ==
    /\ Running
    /\ sessPc = "sleep"
    /\ sessPc' = "create"
    /\ backoff' = 0
    /\ UNCHANGED <<mainPc, accessible, listenIp, exited, ctxCancelled,
                   cancelledBy, reverseProxyPort, named, conns, hookWrote, sigPc, retryCount,
                   connectionSucceededCount, announced, hb, hist>>

\* main.go:310-341 and part_000:36-40: the configuration is built from the
\* current reverseProxyPort, the SSHR is created and the relay dialled; a
\* failed dial is returned.
Run_Dial ==
    /\ Running
    /\ sessPc = "create"
    /\ LET hs == [hist EXCEPT !.dialed = TRUE,
                              !.dialEarly = @ \/ mainPc # "serve",
                              !.portUses = Min(@ + 1, 2),
                              !.prevFwd = FALSE,
                              !.hookCur = 0,
                              !.dialAfterCancel = @ \/ hist.sawCancel] IN
         \/ /\ sessPc' = "listen"
            /\ hist' = [hs EXCEPT !.sshOpen = @ + 1]
            /\ UNCHANGED <<retryCount, backoff, exited, mainPc, sigPc, hb, conns>>
         \/ process_RetryFail(hs)
    /\ UNCHANGED <<accessible, listenIp, ctxCancelled, cancelledBy,
                   reverseProxyPort, named, hookWrote, connectionSucceededCount,
                   announced>>

\* Where SSHR.Run goes once the remote listener is open: the success callback
\* of the configuration (Config.SuccessHook, set at main.go:325) is called once,
\* before the accept loop.
Run_AfterListen == "hook"

\* part_000:42-46: conn.Listen on the remote address. A failure closes the
\* connection (deferred) and is returned.
Run_Listen ==
    /\ Running
    /\ sessPc = "listen"
    /\ \/ /\ BagCardinality(hb) < MaxForwarding
          /\ sessPc' = Run_AfterListen
          /\ hist' = [hist EXCEPT !.fwdReached = TRUE, !.curFwd = TRUE,
                                  !.dlFails = 0, !.listeners = @ + 1]
          /\ UNCHANGED <<retryCount, backoff, exited, mainPc, sigPc, hb, conns>>
       \/ process_RetryFail(Run_Closes(hist, FALSE))
    /\ UNCHANGED <<accessible, listenIp, ctxCancelled, cancelledBy,
                   reverseProxyPort, named, hookWrote, connectionSucceededCount,
                   announced>>

\* Mutant of SuccessHook: the callback runs In(ctx) itself instead of starting
\* a goroutine for it, so Run waits in the callback.
SuccessHook_Inline ==
    /\ Running
    /\ sessPc = "hook"
    /\ connectionSucceededCount' = connectionSucceededCount + 1
    /\ hookWrote' = connectionSucceededCount + 1
    /\ hb' = hb (+) SetToBag({Started})
    /\ sessPc' = "inHook"
    /\ hist' = [hist EXCEPT !.hookCur = @ + 1,
                            !.writers = @ \cup {"session"}]
    /\ UNCHANGED <<mainPc, accessible, listenIp, exited, ctxCancelled,
                   cancelledBy, reverseProxyPort, named, conns, sigPc,
                   retryCount, backoff, announced>>

\* connectionSucceededCount is read and written by the session goroutine
\* (main.go:326) and by the heartbeat goroutines (main.go:436-437) with nothing
\* that orders them. When the increment of main.go:326 runs together with one
\* of main.go:437, both may load the same value and one increment is lost: the
\* session goroutine's store is then one more than its own last store (`own`)
\* and not one more than what the heartbeat has stored since.
RacyReads(own) == {own, connectionSucceededCount}

\* main.go:325-334: the counter is incremented on the session's goroutine and
\* a goroutine running In(ctx) is started.
SuccessHook ==
    /\ Running
    /\ sessPc = "hook"
    /\ \E r \in RacyReads(hookWrote) :
         /\ connectionSucceededCount' = r + 1
         /\ hookWrote' = r + 1
         /\ hb' = hb (+) SetToBag({Started})
    /\ sessPc' = "select"
    /\ hist' = [hist EXCEPT !.hookCur = @ + 1,
                            !.writers = @ \cup {"session"}]
    /\ UNCHANGED <<mainPc, accessible, listenIp, exited, ctxCancelled,
                   cancelledBy, reverseProxyPort, named, conns, sigPc,
                   retryCount, backoff, announced>>

\* part_000:48-53: the head of the accept loop: Run returns nil when the
\* context is done (listener and connection are closed, deferred) and goes on
\* to Accept otherwise.
Run_Select ==
    /\ Running
    /\ sessPc = "select"
    /\ IF ctxCancelled
       THEN process_RetryReset(
                Run_Closes([hist EXCEPT !.sawCancel = TRUE], TRUE))
       ELSE /\ sessPc' = "accept"
            /\ UNCHANGED <<hist, retryCount, backoff, exited, mainPc, sigPc, hb, conns>>
    /\ UNCHANGED <<accessible, listenIp, ctxCancelled, cancelledBy,
                   reverseProxyPort, named, hookWrote, connectionSucceededCount,
                   announced>>

\* part_000:54-66: listener.Accept returns a connection, which handleConn
\* takes (its error is only logged) before the loop goes on, or an error,
\* which ends Run.
Run_Accept ==
    /\ Running
    /\ sessPc = "accept"
    /\ \/ /\ sessPc' = "select"
          /\ UNCHANGED <<hist, retryCount, backoff, exited, mainPc, sigPc, hb, conns>>
       \/ process_RetryFail(Run_Closes(hist, TRUE))
    /\ UNCHANGED <<accessible, listenIp, ctxCancelled, cancelledBy,
                   reverseProxyPort, named, hookWrote, connectionSucceededCount,
                   announced>>

-----------------------------------------------------------------------------
(* The heartbeat loop In (main.go:371-396) with inFunctionTickCallback      *)
(* (main.go:398-441), renameAgent (main.go:473-505) and the closure that    *)
(* runs it (main.go:329-333).                                               *)

\* main.go:429-434: the rename is asked for on the first call of a loop, when
\* a name is configured.
WantsRename(first) == first /\ named

\* Mutant of Announces: every successful call announces.
Announces_Always(count) == count >= 0

\* main.go:436: whether this successful call announces the connection.
Announces(count) == count < AnnounceBelow

\* main.go:398-441, called by goroutine g. With the context already cancelled
\* no /in request is sent and the call fails. Otherwise the request is sent;
\* a status other than 200 is an error; after a 200 come the pause, the rename
\* of a first call (its error is only logged) and the announcement. An error
\* makes In return, which runs its deferred cleanup.
inFunctionTickCallback(g, first) ==
    IF ctxCancelled
    THEN /\ hb' = Moved(g, [g EXCEPT !.pc = "cleanup"])
         /\ UNCHANGED <<hist, connectionSucceededCount, announced>>
    ELSE \E status \in Statuses :
           IF status # StatusOK
           THEN /\ hb' = Moved(g, [g EXCEPT !.pc = "cleanup", !.failed = TRUE])
                /\ hist' = [hist EXCEPT
                              !.registerSent = TRUE,
                              !.registerEarly = @ \/ ~hist.fwdReached,
                              !.hbFailed = TRUE]
                /\ UNCHANGED <<connectionSucceededCount, announced>>
           ELSE LET hs == [hist EXCEPT
                               !.registerSent = TRUE,
                               !.registerOk = TRUE,
                               !.registerEarly = @ \/ ~hist.fwdReached,
                               !.renames =
                                   IF WantsRename(first) THEN @ + 1 ELSE @]
                  IN
                  IF Announces(connectionSucceededCount)
                  THEN /\ connectionSucceededCount' =
                              connectionSucceededCount + 1
                       /\ announced' = announced + 1
                       /\ hb' = Moved(g, [g EXCEPT !.pc = "select"])
                       /\ hist' = [hs EXCEPT
                                     !.writers = @ \cup {"heartbeat"}]
                  ELSE /\ hb' = Moved(g, [g EXCEPT !.pc = "select"])
                       /\ hist' = hs
                       /\ UNCHANGED <<connectionSucceededCount, announced>>

\* main.go:381-384: the registration In makes before its loop.
In_First(g) ==
    /\ Running
    /\ BagIn(g, hb)
    /\ g.pc = "first"
    /\ inFunctionTickCallback(g, TRUE)
    /\ UNCHANGED <<mainPc, accessible, listenIp, exited, ctxCancelled,
                   cancelledBy, reverseProxyPort, named, conns, hookWrote, sigPc, sessPc,
                   retryCount, backoff>>

\* main.go:386-394: the loop's select. The done channel of a cancelled context
\* is ready, the ticker's channel is ready once a minute; when both are, either
\* case may run.
In_Select(g) ==
    /\ Running
    /\ BagIn(g, hb)
    /\ g.pc = "select"
    /\ \/ /\ ctxCancelled
          /\ hb' = Moved(g, [g EXCEPT !.pc = "cleanup"])
          /\ UNCHANGED <<hist, connectionSucceededCount, announced>>
       \/ inFunctionTickCallback(g, FALSE)
    /\ UNCHANGED <<mainPc, accessible, listenIp, exited, ctxCancelled,
                   cancelledBy, reverseProxyPort, named, conns, hookWrote, sigPc, sessPc,
                   retryCount, backoff>>

\* main.go:373-377: the deferred cleanup stops the ticker and calls Out(ctx);
\* the request is sent unless the context is cancelled.
In_Cleanup(g) ==
    /\ Running
    /\ BagIn(g, hb)
    /\ g.pc = "cleanup"
    /\ hb' = Moved(g, [g EXCEPT !.pc = "cancel",
                                !.outs = IF OutSends THEN @ + 1 ELSE @])
    /\ hist' = [hist EXCEPT !.hbOut = @ \/ OutSends]
    /\ UNCHANGED <<mainPc, accessible, listenIp, exited, ctxCancelled,
                   cancelledBy, reverseProxyPort, named, conns, hookWrote, sigPc, sessPc,
                   retryCount, backoff, connectionSucceededCount, announced>>

\* Mutant of In_Cancel: the cleanup leaves the context alone.
In_Cancel_LeavesContext(g) ==
    /\ Running
    /\ BagIn(g, hb)
    /\ g.pc = "cancel"
    /\ hb' = Moved(g, [g EXCEPT !.pc = "returned"])
    /\ UNCHANGED <<mainPc, accessible, listenIp, exited, reverseProxyPort,
                   named, conns, hookWrote, sigPc, sessPc, retryCount, backoff, ctxCancelled,
                   cancelledBy, connectionSucceededCount, announced, hist>>

\* main.go:378: the deferred cleanup cancels the process-wide context, and In
\* returns its error.
In_Cancel(g) ==
    /\ Running
    /\ BagIn(g, hb)
    /\ g.pc = "cancel"
    /\ ctxCancelled' = TRUE
    /\ cancelledBy' = cancelledBy \cup {"heartbeat"}
    /\ hb' = Moved(g, [g EXCEPT !.pc = "returned"])
    /\ UNCHANGED <<mainPc, accessible, listenIp, exited, reverseProxyPort,
                   named, conns, hookWrote, sigPc, sessPc, retryCount, backoff,
                   connectionSucceededCount, announced, hist>>

\* main.go:330-332: In returned an error (it returns nothing else).
In_Returned(g) ==
    /\ Running
    /\ BagIn(g, hb)
    /\ g.pc = "returned"
    /\ printConnectionFailure("heartbeat")
    /\ UNCHANGED <<accessible, listenIp, ctxCancelled, cancelledBy,
                   reverseProxyPort, named, conns, hookWrote, retryCount, backoff,
                   connectionSucceededCount, announced, hist>>

-----------------------------------------------------------------------------
(* Forwarding: the accept loop of SSHR.Run followed connection by connection, *)
(* handleConn (part_000:70-106) and its two io.Copy goroutines. Run_Accept    *)
(* above takes a connection through handleConn in one step and does not keep  *)
(* it; Run_AcceptConn and handleConn_Dial keep it in conns.                   *)

\* One direction of a connection: what the writing peer has written in all
\* (wrote), what of it waits in the source connection (src), whether the peer
\* has closed its side (eof), what io.Copy has written to the destination
\* (out), where the copy loop is and how it ended.
NewStream ==
    [wrote |-> <<>>, src |-> <<>>, eof |-> FALSE, out |-> <<>>,
     pc |-> "idle", end |-> "none"]

\* part_000:54: a connection Accept has returned, handleConn's dial ahead.
\* remoteOpen, localOpen: the accepted connection, and the connection to the
\* local target, are open at this end.
NewConn ==
    [st |-> "dialing", remoteOpen |-> TRUE, localOpen |-> FALSE,
     up |-> NewStream, down |-> NewStream]

\* Bytes written so far by all peers.
RECURSIVE Written(_)
Written(cs) ==
    IF cs = <<>> THEN 0
    ELSE Len(Head(cs).up.wrote) + Len(Head(cs).down.wrote) + Written(Tail(cs))

Prefix(q, n) == SubSeq(q, 1, n)
Suffix(q, n) == SubSeq(q, n + 1, Len(q))
IsPrefix(p, q) == Len(p) <= Len(q) /\ p = Prefix(q, Len(p))

\* part_000:54-57: Accept returns a connection, which Run hands to handleConn,
\* or an error, which ends Run.
Run_AcceptConn ==
    /\ Running
    /\ sessPc = "accept"
    /\ \/ /\ Len(conns) < MaxConns
          /\ conns' = Append(conns, NewConn)
          /\ sessPc' = "handle"
          /\ UNCHANGED <<hist, retryCount, backoff, exited, mainPc, sigPc, hb>>
       \/ process_RetryFail(Run_Closes(hist, TRUE))
    /\ UNCHANGED <<accessible, listenIp, ctxCancelled, cancelledBy,
                   reverseProxyPort, named, hookWrote, connectionSucceededCount,
                   announced>>

\* Mutant of Run_AfterHandle: an error of handleConn ends Run.
Run_AfterHandle_ErrorEndsRun(err) == IF err THEN "return" ELSE "select"

\* part_000:59-66: Run after handleConn has returned: an error is logged and
\* the loop goes on, as it does without one.
Run_AfterHandle(err) == IF err THEN "select" ELSE "select"

\* Mutant of handleConn_Started: the copy loops are not started.
handleConn_Started_Nothing(c) == [c EXCEPT !.st = "forwarding", !.localOpen = TRUE]

\* part_000:80-105: the connection once the dial has succeeded: both copy
\* goroutines are started.
handleConn_Started(c) ==
    [c EXCEPT !.st = "forwarding", !.localOpen = TRUE,
              !.up.pc = "copy", !.down.pc = "copy"]

\* part_000:75-78: the connection when the dial has failed: handleConn returns
\* the error and leaves the accepted connection as it is.
handleConn_Failed(c) == [c EXCEPT !.st = "dropped"]

\* part_000:59 with 70-106: handleConn, called by Run on its own goroutine:
\* net.Dial to the local target returns, then handleConn returns to Run.
handleConn_Dial ==
    /\ Running
    /\ sessPc = "handle"
    /\ \E err \in BOOLEAN :
         /\ conns' = [conns EXCEPT ![Len(conns)] =
                         IF err THEN handleConn_Failed(@)
                         ELSE handleConn_Started(@)]
         /\ IF Run_AfterHandle(err) = "return"
            THEN /\ retryCount' = retryCount + 1
                 /\ backoff' = backoffDuration(retryCount')
                 /\ sessPc' = "sleep"
            ELSE /\ sessPc' = Run_AfterHandle(err)
                 /\ UNCHANGED <<retryCount, backoff>>
    /\ UNCHANGED <<mainPc, accessible, listenIp, exited, ctxCancelled,
                   cancelledBy, reverseProxyPort, named, hookWrote, sigPc,
                   connectionSucceededCount, announced, hb, hist>>

\* The peer at the source of direction d of connection i writes a byte: the
\* remote peer from the moment the connection is accepted, the local target
\* once it has been dialled.
Peer_Write(i, d) ==
    /\ Running
    /\ i \in DOMAIN conns
    /\ Written(conns) < MaxBytes
    /\ ~conns[i][d].eof
    /\ IF d = "up" THEN conns[i].remoteOpen ELSE conns[i].st = "forwarding"
    /\ \E b \in Bytes :
         conns' = [conns EXCEPT ![i][d].wrote = Append(@, b),
                                ![i][d].src = Append(@, b)]
    /\ UNCHANGED <<mainPc, accessible, listenIp, exited, ctxCancelled,
                   cancelledBy, reverseProxyPort, named, hookWrote, sigPc,
                   sessPc, retryCount, backoff, connectionSucceededCount,
                   announced, hb, hist>>

\* That peer closes its side: the stream ends after what it has written.
Peer_Close(i, d) ==
    /\ Running
    /\ i \in DOMAIN conns
    /\ ~conns[i][d].eof
    /\ IF d = "up" THEN conns[i].remoteOpen ELSE conns[i].st = "forwarding"
    /\ conns' = [conns EXCEPT ![i][d].eof = TRUE]
    /\ UNCHANGED <<mainPc, accessible, listenIp, exited, ctxCancelled,
                   cancelledBy, reverseProxyPort, named, hookWrote, sigPc,
                   sessPc, retryCount, backoff, connectionSucceededCount,
                   announced, hb, hist>>

\* The source of direction d is closed at this end: nothing more arrives.
SourceClosed(c, d) == d = "up" /\ ~c.remoteOpen

\* The destination of direction d is closed at this end: a write fails.
DestClosed(c, d) == d = "down" /\ ~c.remoteOpen

\* Mutant of Copy_Delivered: the chunk is written twice.
Copy_Delivered_Twice(out, chunk) == out \o chunk \o chunk

\* io.Copy (part_000:81 and 94): what the destination has received once the
\* chunk read last has been written to it.
Copy_Delivered(out, chunk) == out \o chunk

\* io.Copy, one round of its loop: Read takes some of the waiting bytes from
\* the source and Write hands them all to the destination.
Copy_Chunk(i, d) ==
    /\ Running
    /\ i \in DOMAIN conns
    /\ conns[i][d].pc = "copy"
    /\ ~DestClosed(conns[i], d)
    /\ \E n \in 1..Len(conns[i][d].src) :
         conns' = [conns EXCEPT
                     ![i][d].out = Copy_Delivered(@, Prefix(conns[i][d].src, n)),
                     ![i][d].src = Suffix(@, n)]
    /\ UNCHANGED <<mainPc, accessible, listenIp, exited, ctxCancelled,
                   cancelledBy, reverseProxyPort, named, hookWrote, sigPc,
                   sessPc, retryCount, backoff, connectionSucceededCount,
                   announced, hb, hist>>

\* io.Copy, Read finds the end of the stream: the peer has closed (or the
\* source is closed at this end) and nothing waits. io.Copy returns nil and
\* the goroutine logs and ends (part_000:88-90, 101-103). Nothing else is
\* done: no connection is closed.
Copy_Eof(i, d) ==
    /\ Running
    /\ i \in DOMAIN conns
    /\ conns[i][d].pc = "copy"
    /\ conns[i][d].src = <<>>
    /\ conns[i][d].eof \/ SourceClosed(conns[i], d)
    /\ conns' = [conns EXCEPT ![i][d].pc = "done", ![i][d].end = "eof"]
    /\ UNCHANGED <<mainPc, accessible, listenIp, exited, ctxCancelled,
                   cancelledBy, reverseProxyPort, named, hookWrote, sigPc,
                   sessPc, retryCount, backoff, connectionSucceededCount,
                   announced, hb, hist>>

\* io.Copy, Read fails (the connection broke): io.Copy returns the error,
\* which the goroutine logs (part_000:82-87, 95-100) before it ends.
Copy_ReadErr(i, d) ==
    /\ Running
    /\ i \in DOMAIN conns
    /\ conns[i][d].pc = "copy"
    /\ conns' = [conns EXCEPT ![i][d].pc = "done", ![i][d].end = "err"]
    /\ UNCHANGED <<mainPc, accessible, listenIp, exited, ctxCancelled,
                   cancelledBy, reverseProxyPort, named, hookWrote, sigPc,
                   sessPc, retryCount, backoff, connectionSucceededCount,
                   announced, hb, hist>>

\* io.Copy, Read takes n bytes and Write fails after k of them (none when the
\* destination is closed at this end): io.Copy returns the error, the
\* goroutine logs it and ends.
Copy_WriteErr(i, d) ==
    /\ Running
    /\ i \in DOMAIN conns
    /\ conns[i][d].pc = "copy"
    /\ \E n \in 1..Len(conns[i][d].src), k \in 0..(Len(conns[i][d].src) - 1) :
         /\ k < n
         /\ DestClosed(conns[i], d) => k = 0
         /\ conns' = [conns EXCEPT
                        ![i][d].out = Copy_Delivered(@, Prefix(conns[i][d].src, k)),
                        ![i][d].src = Suffix(@, n),
                        ![i][d].pc = "done",
                        ![i][d].end = "err"]
    /\ UNCHANGED <<mainPc, accessible, listenIp, exited, ctxCancelled,
                   cancelledBy, reverseProxyPort, named, hookWrote, sigPc,
                   sessPc, retryCount, backoff, connectionSucceededCount,
                   announced, hb, hist>>

\* The first session has opened its listener and called the success callback;
\* Run is at pc and has accepted the connections cs.
Forwarding(pc, cs) ==
    /\ mainPc = "serve"
    /\ accessible = FALSE
    /\ listenIp = "0.0.0.0"
    /\ exited = NotExited
    /\ ctxCancelled = FALSE
    /\ cancelledBy = {}
    /\ reverseProxyPort \in
         {[port |-> p, status |-> StatusOK] : p \in AllocatablePorts}
    /\ named = FALSE
    /\ sigPc = "wait"
    /\ sessPc = pc
    /\ retryCount = 0
    /\ backoff = 0
    /\ connectionSucceededCount = 1
    /\ hookWrote = 1
    /\ announced = 0
    /\ hb = SetToBag({Started})
    /\ conns = cs
    /\ hist = [HistInit EXCEPT !.deregStartup = 1, !.alloc = 1,
                               !.dialed = TRUE, !.portUses = 1,
                               !.fwdReached = TRUE, !.curFwd = TRUE,
                               !.hookCur = 1, !.writers = {"session"},
                               !.sshOpen = 1, !.listeners = 1]

\* FwdSpec starts at the head of the accept loop, no connection accepted yet.
FwdInit == Forwarding("select", <<>>)

\* One session from Forwarding until Accept fails, with the connections it
\* accepts, while no signal arrives and the heartbeat stays registered.
FwdNext ==
    \/ Run_Select
    \/ Run_AcceptConn
    \/ handleConn_Dial
    \/ \E i \in 1..MaxConns, d \in Directions :
         \/ Peer_Write(i, d)
         \/ Peer_Close(i, d)
         \/ Copy_Chunk(i, d)
         \/ Copy_Eof(i, d)
         \/ Copy_ReadErr(i, d)
         \/ Copy_WriteErr(i, d)

FwdSpec == FwdInit /\ [][FwdNext]_vars

\* A copy goroutine that can go on is scheduled: it copies what waits, finds
\* the end of the stream, or finds its destination closed.
Copy_Step(i, d) ==
    \/ Copy_Chunk(i, d)
    \/ Copy_Eof(i, d)
    \/ i \in DOMAIN conns /\ DestClosed(conns[i], d) /\ Copy_WriteErr(i, d)

\* CopySpec starts when Accept has returned the session's first connection and
\* handleConn is about to dial; it follows that connection alone.
CopyInit == Forwarding("handle", <<NewConn>>)

\* The first connection of a session from its dial on: its peers, its copy
\* loops, and the accept loop, whose further connections are not kept, until
\* Accept fails.
CopyNext ==
    \/ handleConn_Dial
    \/ Run_Select
    \/ Run_Accept
    \/ \E i \in 1..MaxConns, d \in Directions :
         \/ Peer_Write(i, d)
         \/ Peer_Close(i, d)
         \/ Copy_Chunk(i, d)
         \/ Copy_Eof(i, d)
         \/ Copy_ReadErr(i, d)
         \/ Copy_WriteErr(i, d)

CopySpec == CopyInit /\ [][CopyNext]_vars

FairCopySpec ==
    CopySpec /\ \A i \in 1..MaxConns, d \in Directions : WF_vars(Copy_Step(i, d))

-----------------------------------------------------------------------------
Next ==
    \/ process_Probe
    \/ process_Bind
    \/ process_Announce
    \/ process_Deregister
    \/ process_DeregisterReturn
    \/ process_Allocate
    \/ process_AllocateReturn
    \/ process_Spawn
    \/ process_Serve
    \/ handler_Receive
    \/ handler_OutReturn
    \/ handler_Cancel
    \/ handler_Exit
    \/ Run_Dial
    \/ Run_Listen
    \/ SuccessHook
    \/ Run_Select
    \/ Run_Accept
    \/ process_Sleep
    \/ \E g \in BagToSet(hb) : In_First(g)
    \/ \E g \in BagToSet(hb) : In_Select(g)
    \/ \E g \in BagToSet(hb) : In_Cleanup(g)
    \/ \E g \in BagToSet(hb) : In_Cancel(g)
    \/ \E g \in BagToSet(hb) : In_Returned(g)

Spec == Init /\ [][Next]_vars

\* The scheduler runs every runnable goroutine: the success callback, once the
\* listener is open, is called, and a heartbeat goroutine that is at its first
\* registration or on its way out of In takes its next step. Nothing is assumed
\* of the environment (signals, the relay, the control plane's ticker-paced
\* calls).
HbLeave ==
    \E g \in BagToSet(hb) :
        In_First(g) \/ In_Cleanup(g) \/ In_Cancel(g) \/ In_Returned(g)

FairSpec == Spec /\ WF_vars(SuccessHook) /\ WF_vars(HbLeave)

-----------------------------------------------------------------------------
(* Properties.                                                             *)

\* Some request was sent to the control plane.
ControlCalls ==
    \/ hist.deregStartup > 0
    \/ hist.alloc > 0
    \/ hist.registerSent
    \/ hist.renames > 0
    \/ hist.hbOut
    \/ hist.sigOutSent

\* C1: the process ends on the retry ceiling exactly when the 11th consecutive
\* attempt has failed in Dialing or Listening (none of them having reached
\* Forwarding), and after the k-th such failure, k in 1..10, it goes on and
\* sleeps 5k seconds before the next attempt.
C1_FatalAtEleventhFailure ==
    /\ (exited.by = "retry") <=> (hist.dlFails = MaxRetries + 1)
    /\ (sessPc = "sleep" /\ hist.dlFails \in 1..MaxRetries)
          => backoff = BackoffUnit * hist.dlFails

\* C2: when an attempt starts after a session that had reached Forwarding, the
\* retry counter is 0, whatever ended that session.
C2_ResetAfterForwarding ==
    (sessPc = "create" /\ hist.prevFwd) => retryCount = 0

\* C3: in tunnel mode the startup sends exactly one /out, then exactly one
\* /freeport, and the first ssh.Dial comes only after both have returned; no
\* /freeport and no dial precedes the startup /out.
C3_StartupOrder ==
    /\ hist.deregStartup <= 1
    /\ hist.alloc <= 1
    /\ ~hist.allocEarly
    /\ hist.alloc > 0 => hist.deregStartup = 1 /\ mainPc # "deregisterWait"
    /\ ~hist.dialEarly
    /\ hist.dialed => hist.deregStartup = 1 /\ hist.alloc = 1
    /\ sessPc \notin {"none", "exited"} => hist.deregStartup = 1 /\ hist.alloc = 1

\* A first dial has been made, after the two startup calls.
C3_Witness ==
    /\ ~accessible
    /\ hist.dialed
    /\ hist.deregStartup = 1
    /\ hist.alloc = 1

\* C4: when the probe says the host is reachable, no control-plane request is
\* ever sent, no session is created, no tunnel goroutine is started: the
\* process only binds and serves the proxy.
C4_DirectModeIsQuiet ==
    accessible =>
        /\ ~ControlCalls
        /\ ~hist.dialed
        /\ sessPc \in {"none", "exited"}
        /\ sigPc \in {"none", "exited"}
        /\ hb = EmptyBag
        /\ mainPc \in {"bind", "announce", "serve", "exited"}

\* The probe said reachable and the proxy serves.
C4_Witness == accessible /\ mainPc = "serve" /\ announced = 1

\* C5: /rename is sent at most once in a process lifetime, and not before an
\* /in has returned 200.
C5_RenameAtMostOnce ==
    /\ hist.renames <= 1
    /\ hist.renames > 0 => hist.registerOk

C6_FailedHeartbeatInv ==
    /\ \A g \in BagToSet(hb) :
         g.failed =>
            /\ g.pc \in {"cleanup", "cancel", "returned"}
            /\ (g.pc = "returned" => ctxCancelled /\ "heartbeat" \in cancelledBy)
            /\ (g.pc \in {"cancel", "returned"} /\ g.outs = 0 => ctxCancelled)
    /\ exited.by = "heartbeat" =>
          /\ exited.code = 1
          /\ ctxCancelled
          /\ "heartbeat" \in cancelledBy

C7_RegisterFollowsForwarding ==
    /\ [](hist.registerSent => hist.fwdReached)
    /\ hist.fwdReached ~> hist.registerSent

\* C7 as the code has it: no /in before a session has opened its listener, and
\* once one has, an /in is eventually sent unless the process ends first.
C7_RegisterFollowsForwardingOrExit ==
    /\ [](hist.registerSent => hist.fwdReached)
    /\ [](~hist.registerEarly)
    /\ hist.fwdReached ~> (hist.registerSent \/ ~Running)

\* The first session is forwarding and the first /in has been sent.
C7_Witness ==
    /\ hist.fwdReached
    /\ hist.registerSent
    /\ sessPc \in {"select", "accept"}
    /\ hist.dlFails = 0
    /\ BagCardinality(hb) = 1

\* C8: the handler calls Out(ctx) and cancels only after Out has returned; the
\* process is ended by the handler only after that cancel, with status 0; the
\* handler has not cancelled the context while its /out is under way.
C8_HandlerOrder ==
    /\ "handler" \in cancelledBy => hist.sigOutCalled /\ hist.sigOutDone
    /\ hist.sigOutDone => hist.sigOutCalled
    /\ sigPc \in {"cancel", "exit"} => hist.sigOutDone
    /\ sigPc \in {"wait", "outWait", "cancel"} => "handler" \notin cancelledBy
    /\ exited.by = "handler" =>
          /\ exited.code = 0
          /\ "handler" \in cancelledBy
          /\ hist.sigOutDone

\* The handler sent /out, waited, cancelled and ended the process.
C8_Witness ==
    /\ exited = [code |-> 0, by |-> "handler"]
    /\ hist.sigOutSent
    /\ hist.sigOutDone
    /\ cancelledBy = {"handler"}

\* C9: once the session loop has seen the cancellation (Run returned nil on
\* ctx.Done) it dials no more.
C9_NoDialAfterCancel == ~hist.dialAfterCancel

\* C10: every attempt listens on a port got by an AllocatePort made for it: no
\* two attempts without an AllocatePort between them.
C10_FreshPortPerAttempt == hist.portUses <= 1

Other(d) == IF d = "up" THEN "down" ELSE "up"

\* C11, the bytes: what a copy loop has delivered is a prefix of what the
\* peer wrote, and until the loop fails, delivered and waiting bytes together
\* are exactly what was written.
C11_DeliveredIsPrefix ==
    \A i \in DOMAIN conns, d \in Directions :
        /\ IsPrefix(conns[i][d].out, conns[i][d].wrote)
        /\ conns[i][d].end # "err" =>
              conns[i][d].out \o conns[i][d].src = conns[i][d].wrote

\* C11, the end of one direction: the step in which a copy loop finds the end
\* of its stream leaves the other direction and both connections as they are.
C11_EofLeavesOther ==
    \A i \in DOMAIN conns, d \in Directions :
        (conns[i][d].end # "eof" /\ conns'[i][d].end = "eof") =>
            /\ conns'[i][Other(d)] = conns[i][Other(d)]
            /\ conns'[i].remoteOpen = conns[i].remoteOpen
            /\ conns'[i].localOpen = conns[i].localOpen

\* C11: for every forwarded connection and both directions, the bytes
\* delivered are always a prefix of the bytes written (same bytes, same order,
\* none lost or duplicated); a direction reaching the end of its stream does
\* not touch the other one, whose loop goes on and delivers the bytes that
\* wait, unless its own stream fails.
C11_ForwardsInOrder ==
    /\ []C11_DeliveredIsPrefix
    /\ [][C11_EofLeavesOther]_vars
    /\ \A i \in 1..MaxConns, d \in Directions :
          (/\ i \in DOMAIN conns
           /\ conns[i][d].end = "eof"
           /\ conns[i][Other(d)].pc = "copy"
           /\ conns[i][Other(d)].src # <<>>)
          ~> (/\ i \in DOMAIN conns
              /\ \/ conns[i][Other(d)].src = <<>>
                 \/ conns[i][Other(d)].end = "err")

\* One direction of a connection has delivered a byte and reached the end of
\* its stream while a byte waits in the other direction, whose loop runs.
C11_Witness ==
    /\ conns # <<>>
    /\ conns[1].up.end = "eof"
    /\ Len(conns[1].up.out) = 1
    /\ conns[1].down.pc = "copy"
    /\ Len(conns[1].down.src) = 1

\* The step in which handleConn returns the error of its dial to Run.
DialFailed ==
    /\ sessPc = "handle"
    /\ conns # <<>>
    /\ conns[Len(conns)].st = "dialing"
    /\ Len(conns') = Len(conns)
    /\ conns'[Len(conns)].st = "dropped"

\* C12: when the dial to the local target fails, Run is back at the head of
\* its accept loop with the session still forwarding; the retry counter, the
\* backoff and the process (not exited, context not cancelled) are as before,
\* and every connection accepted earlier is untouched, its copy loops where
\* they were.
C12_DialFailureDropsOne ==
    [][DialFailed =>
         /\ sessPc' = "select"
         /\ hist'.curFwd /\ hist' = hist
         /\ retryCount' = retryCount
         /\ backoff' = backoff
         /\ exited' = NotExited
         /\ ctxCancelled' = ctxCancelled
         /\ \A i \in 1..(Len(conns) - 1) : conns'[i] = conns[i]]_vars

\* The first connection was dropped for its dial; the loop went on, accepted
\* the second, which is forwarded and has delivered a byte; nothing was
\* counted as a failed attempt.
C12_Witness ==
    /\ Len(conns) = 2
    /\ conns[1].st = "dropped"
    /\ conns[2].st = "forwarding"
    /\ Len(conns[2].up.out) = 1
    /\ sessPc \in {"select", "accept"}
    /\ retryCount = 0
    /\ Running

\* C13: a heartbeat loop that is past its cleanup has sent exactly one /out.
C13_OneDeregisterPerReturn ==
    \A g \in BagToSet(hb) : g.pc \in {"cancel", "returned"} => g.outs = 1

\* C14: the port of the process, and so the port a session listens on, comes
\* from a /freeport answer of status 200.
C14_PortFromOkResponse ==
    /\ reverseProxyPort # NoPort => reverseProxyPort.status = StatusOK
    /\ sessPc \in {"hook", "select", "accept"} =>
          reverseProxyPort.status = StatusOK

\* C15: a failed probe does not end the process.
C15_ProbeFailureFallsBack == exited.by # "probe"

C17_AcceptNeverWaits ==
    \A i \in DOMAIN conns :
        conns[i].st = "dialing" => sessPc \in {"select", "accept"}

\* C18: once both copy loops of a connection have ended, both its connections
\* are closed, and a connection dropped for its dial is closed.
C18_EndedLoopsCloseConns ==
    \A i \in DOMAIN conns :
        /\ (conns[i].up.pc = "done" /\ conns[i].down.pc = "done") =>
              ~conns[i].remoteOpen /\ ~conns[i].localOpen
        /\ conns[i].st = "dropped" => ~conns[i].remoteOpen

\* C19: only heartbeat goroutines store connectionSucceededCount.
C19_OnlyHeartbeatWrites == hist.writers \subseteq {"heartbeat"}

\* C20: in tunnel mode the connection is announced at most once, and not
\* before an /in has returned 200.
C20_AnnouncedAtMostOnce ==
    ~accessible =>
        /\ announced <= 1
        /\ announced > 0 => hist.registerOk

\* Two sessions have reached Forwarding, both heartbeat loops have registered
\* and are ticking, and the connection has been announced once.
C20_Witness ==
    /\ ~accessible
    /\ announced = 1
    /\ hb = SetToBag({[Started EXCEPT !.pc = "select"]})
              (+) SetToBag({[Started EXCEPT !.pc = "select"]})
    /\ connectionSucceededCount > AnnounceBelow

\* A heartbeat loop that has not left its loop: it registers and ticks.
Ticking(g) == g.pc \in {"first", "select"}

\* C21: at most one heartbeat loop runs at any time.
C21_OneHeartbeatLoop ==
    \A g \in BagToSet(hb) :
        Ticking(g) =>
            /\ CopiesIn(g, hb) = 1
            /\ \A h \in BagToSet(hb) : Ticking(h) => h = g

\* A step in which a heartbeat loop sends an /in request: a call of
\* inFunctionTickCallback while the context is live.
RegisterStep ==
    /\ ~ctxCancelled
    /\ \E g \in BagToSet(hb) : In_First(g) \/ In_Select(g)

\* C22: no /in is sent once the signal handler has sent its /out.
C22_NoRegisterAfterShutdownOut ==
    [][hist.sigOutSent => ~RegisterStep]_vars

\* C23: at most one SSH connection and one remote listener are open at any
\* time, and none is when the session loop is between two sessions: before a
\* dial and during a backoff, everything the previous Run opened is closed.
C23_OneSessionAtATime ==
    /\ hist.sshOpen \in 0..1
    /\ hist.listeners \in 0..1
    /\ hist.listeners <= hist.sshOpen
    /\ sessPc \in {"none", "create", "sleep"} =>
          hist.sshOpen = 0 /\ hist.listeners = 0
    /\ sessPc = "listen" => hist.sshOpen = 1 /\ hist.listeners = 0
    /\ sessPc \in {"hook", "select", "accept"} =>
          hist.sshOpen = 1 /\ hist.listeners = 1

\* A second session holds the remote listener, the first one having ended.
C23_Witness ==
    /\ sessPc = "select"
    /\ hist.listeners = 1
    /\ hist.sshOpen = 1
    /\ BagCardinality(hb) = 2

\* C24, the states: the counter stays within 0..11, the process has ended on
\* the retry ceiling whenever it is 11, and a backoff in progress lasts five
\* seconds per counted failure, between 5 and 50 seconds.
C24_CounterInRange ==
    /\ retryCount \in 0..(MaxRetries + 1)
    /\ retryCount = MaxRetries + 1 => exited = [code |-> 1, by |-> "retry"]
    /\ exited.by = "retry" => retryCount = MaxRetries + 1
    /\ sessPc = "sleep" =>
          /\ retryCount \in 1..MaxRetries
          /\ backoff = BackoffUnit * retryCount
          /\ backoff \in BackoffUnit..(BackoffUnit * MaxRetries)

\* C24, the steps: the counter changes by one up or back to 0, and a step that
\* starts a backoff has counted one more failure, so that the sleep is five
\* seconds longer than the one before it in the streak.
C24_BackoffGrows ==
    /\ retryCount' # retryCount => retryCount' \in {0, retryCount + 1}
    /\ (sessPc # "sleep" /\ sessPc' = "sleep") =>
          /\ retryCount' = retryCount + 1
          /\ backoff' = BackoffUnit * retryCount + BackoffUnit

\* C24: the retry counter stays within 0..11 and the process ends in the step
\* that makes it 11; every backoff lasts between 5 and 50 seconds and is 5
\* seconds longer than the previous one of its streak.
C24_RetryCounterBounded ==
    /\ []C24_CounterInRange
    /\ [][C24_BackoffGrows]_vars

\* The eleventh counted failure has ended the process.
C24_Witness ==
    /\ retryCount = MaxRetries + 1
    /\ exited = [code |-> 1, by |-> "retry"]
    /\ backoff = 0

=============================================================================
